---- MODULE Spec2Model ----
(***************************************************************************)
(* serde_eetf: a serde data format for the Erlang External Term Format.    *)
(* The Serializer (src/src/ser.rs) turns a value of the serde data model   *)
(* into an eetf::Term; the Deserializer (src/src/de.rs) walks a Term under *)
(* the guidance of the target type's Deserialize implementation.           *)
(*                                                                         *)
(* Values, type hints and Terms are records.  Strings (atom names, field   *)
(* names, str values) are sequences of Unicode code points; binaries are   *)
(* sequences of bytes.                                                     *)
(***************************************************************************)
EXTENDS Integers, Sequences, FiniteSets, TLC

(***************************************************************************)
(* Bounds of the model.                                                    *)
(***************************************************************************)
\* Bits of the narrowest integer types: i8 and u8 have NarrowBits bits and
\* each doubling of the width adds one bit (i16: +1, i32: +2, i64: +3), so
\* that every containment between the eight ranges is the real one.
NarrowBits == 2
\* Longest sequence, map or argument list that is enumerated.
MaxLen == 2

(***************************************************************************)
(* Result<T, Error> (src/src/error.rs).                                    *)
(***************************************************************************)
Ok(v) == [ok |-> TRUE, val |-> v]
Err(e) == [ok |-> FALSE, err |-> e]

\* The members of enum Error; Message, DecodeError and EncodeError carry a
\* string in the source, which the model drops.
Error ==
    {"Message", "DecodeError", "EncodeError", "TypeHintsRequired",
     "ExpectedBoolean", "InvalidBoolean", "ExpectedFixInteger", "ExpectedFloat",
     "ExpectedChar", "ExpectedBinary", "Utf8DecodeError", "ExpectedNil",
     "ExpectedList", "ExpectedTuple", "WrongTupleLength", "ExpectedMap",
     "ExpectedAtom", "IntegerConvertError", "FloatConvertError", "TooManyItems",
     "MisSizedVariantTuple", "ExpectedAtomOrTuple"}

(***************************************************************************)
(* eetf::Term, the variants the crate builds or matches on.                *)
(***************************************************************************)
Atom(name) == [kind |-> "Atom", name |-> name]
FixInteger(value) == [kind |-> "FixInteger", value |-> value]
BigInteger(value) == [kind |-> "BigInteger", value |-> value]
Float(value) == [kind |-> "Float", value |-> value]
Binary(bytes) == [kind |-> "Binary", bytes |-> bytes]
List(elements) == [kind |-> "List", elements |-> elements]
Tuple(elements) == [kind |-> "Tuple", elements |-> elements]
Map(entries) == [kind |-> "Map", entries |-> entries]

(***************************************************************************)
(* Integer widths.                                                         *)
(***************************************************************************)
RECURSIVE Pow2(_)
Pow2(n) == IF n = 0 THEN 1 ELSE 2 * Pow2(n - 1)

Signed(w) == w \in {"i8", "i16", "i32", "i64"}

Bits(w) ==
    CASE w \in {"i8", "u8"} -> NarrowBits
      [] w \in {"i16", "u16"} -> NarrowBits + 1
      [] w \in {"i32", "u32"} -> NarrowBits + 2
      [] w \in {"i64", "u64"} -> NarrowBits + 3

MinOf(w) == IF Signed(w) THEN 0 - Pow2(Bits(w) - 1) ELSE 0
MaxOf(w) == IF Signed(w) THEN Pow2(Bits(w) - 1) - 1 ELSE Pow2(Bits(w)) - 1
RangeOf(w) == MinOf(w)..MaxOf(w)

(***************************************************************************)
(* Strings.  A char is its code point; str::as_bytes and str::from_utf8    *)
(* are UTF-8 encoding and validation.                                      *)
(***************************************************************************)
Utf8Char(c) ==
    IF c < 128 THEN <<c>>
    ELSE IF c < 2048 THEN <<192 + (c \div 64), 128 + (c % 64)>>
    ELSE IF c < 65536
    THEN <<224 + (c \div 4096), 128 + ((c \div 64) % 64), 128 + (c % 64)>>
    ELSE <<240 + (c \div 262144), 128 + ((c \div 4096) % 64),
           128 + ((c \div 64) % 64), 128 + (c % 64)>>

RECURSIVE as_bytes(_)
as_bytes(s) == IF s = <<>> THEN <<>> ELSE Utf8Char(Head(s)) \o as_bytes(Tail(s))

IsCont(b) == b \in 128..191

\* str::from_utf8: Ok(the chars) or Err("Utf8Error").
RECURSIVE from_utf8(_, _)
from_utf8(bytes, chars) ==
    IF bytes = <<>> THEN Ok(chars)
    ELSE LET b == bytes[1]
             n == Len(bytes)
         IN  IF b < 128 THEN from_utf8(Tail(bytes), Append(chars, b))
             ELSE IF b \in 194..223 /\ n >= 2 /\ IsCont(bytes[2])
             THEN from_utf8(SubSeq(bytes, 3, n),
                            Append(chars, (b - 192) * 64 + (bytes[2] - 128)))
             ELSE IF b \in 224..239 /\ n >= 3 /\ IsCont(bytes[2]) /\ IsCont(bytes[3])
             THEN LET c == (b - 224) * 4096 + (bytes[2] - 128) * 64 + (bytes[3] - 128)
                  IN  IF c < 2048 \/ c \in 55296..57343 THEN Err("Utf8Error")
                      ELSE from_utf8(SubSeq(bytes, 4, n), Append(chars, c))
             ELSE IF b \in 240..244 /\ n >= 4 /\ IsCont(bytes[2]) /\ IsCont(bytes[3])
                     /\ IsCont(bytes[4])
             THEN LET c == (b - 240) * 262144 + (bytes[2] - 128) * 4096
                           + (bytes[3] - 128) * 64 + (bytes[4] - 128)
                  IN  IF c < 65536 \/ c > 1114111 THEN Err("Utf8Error")
                      ELSE from_utf8(SubSeq(bytes, 5, n), Append(chars, c))
             ELSE Err("Utf8Error")

(***************************************************************************)
(* Name casing (heck::SnakeCase, heck::CamelCase) on identifiers.          *)
(***************************************************************************)
Underscore == 95
IsUpper(c) == c \in 65..90
IsLower(c) == c \in 97..122
ToLower(c) == IF IsUpper(c) THEN c + 32 ELSE c
ToUpper(c) == IF IsLower(c) THEN c - 32 ELSE c

\* heck's word splitter on one identifier: i is the current char, init the
\* start of the current word, mode the WordMode; the result is the words.
RECURSIVE transform(_, _, _, _, _)
transform(s, i, init, mode, words) ==
    IF i > Len(s) THEN words
    ELSE LET c == s[i] IN
         IF c = Underscore
         THEN transform(s, i + 1, IF init = i THEN init + 1 ELSE init, mode, words)
         ELSE IF i < Len(s)
         THEN LET next == s[i + 1]
                  next_mode == IF IsLower(c) THEN "Lowercase"
                               ELSE IF IsUpper(c) THEN "Uppercase" ELSE mode
              IN  IF next = Underscore \/ (next_mode = "Lowercase" /\ IsUpper(next))
                  THEN transform(s, i + 1, i + 1, "Boundary",
                                 Append(words, SubSeq(s, init, i)))
                  ELSE IF mode = "Uppercase" /\ IsUpper(c) /\ IsLower(next)
                  THEN transform(s, i + 1, i, "Boundary",
                                 Append(words, SubSeq(s, init, i - 1)))
                  ELSE transform(s, i + 1, init, next_mode, words)
         ELSE Append(words, SubSeq(s, init, Len(s)))

lowercase(word) == [j \in 1..Len(word) |-> ToLower(word[j])]
capitalize(word) ==
    [j \in 1..Len(word) |-> IF j = 1 THEN ToUpper(word[j]) ELSE ToLower(word[j])]

RECURSIVE snake_join(_)
snake_join(words) ==
    IF words = <<>> THEN <<>>
    ELSE IF Len(words) = 1 THEN lowercase(words[1])
    ELSE lowercase(words[1]) \o <<Underscore>> \o snake_join(Tail(words))

RECURSIVE camel_join(_)
camel_join(words) ==
    IF words = <<>> THEN <<>> ELSE capitalize(words[1]) \o camel_join(Tail(words))

to_snake_case(s) == snake_join(transform(s, 1, 1, "Boundary", <<>>))
to_camel_case(s) == camel_join(transform(s, 1, 1, "Boundary", <<>>))

\* Atom names the crate spells out.
NIL == <<110, 105, 108>>
TRUE_NAME == <<116, 114, 117, 101>>
FALSE_NAME == <<102, 97, 108, 115, 101>>

(***************************************************************************)
(* Values of the serde data model, as the Serialize implementations of     *)
(* the host types present them to the Serializer:                          *)
(*   [k |-> "bool", v], [k |-> "int", w, v], [k |-> "float", w, v],        *)
(*   [k |-> "char", v], [k |-> "str", v], [k |-> "bytes", v],              *)
(*   [k |-> "none"], [k |-> "some", v], [k |-> "unit"],                    *)
(*   [k |-> "unit_struct"], [k |-> "newtype_struct", v],                   *)
(*   [k |-> "seq", items], [k |-> "tuple", items],                         *)
(*   [k |-> "tuple_struct", items], [k |-> "map", entries],                *)
(*   [k |-> "struct", fields],                                             *)
(*   [k |-> "unit_variant", name], [k |-> "newtype_variant", name, v],     *)
(*   [k |-> "tuple_variant", name, items],                                 *)
(*   [k |-> "struct_variant", name, fields].                               *)
(* entries and fields are sequences of pairs <<key, value>>.  A float is   *)
(* [cls |-> "finite" | "nan" | "inf" | "neg_inf", num |-> Int].            *)
(***************************************************************************)

(***************************************************************************)
(* impl ser::Serializer for &Serializer (src/src/ser.rs).                  *)
(***************************************************************************)
serialize_bool(v) == Ok(Atom(IF v THEN TRUE_NAME ELSE FALSE_NAME))

serialize_i32(v) == Ok(FixInteger(v))
serialize_i8(v) == serialize_i32(v)
serialize_i16(v) == serialize_i32(v)
\* BigInt::from_i64 is Some for every i64.
serialize_i64(v) == Ok(BigInteger(v))

serialize_u16(v) == Ok(FixInteger(v))
serialize_u8(v) == serialize_u16(v)
\* BigInt::from_u64 is Some for every u64.
serialize_u64(v) == Ok(BigInteger(v))
\* A faulty variant, for comparison: the node kind picked from the magnitude.
serialize_u32_by_magnitude(v) ==
    IF v \in RangeOf("i32") THEN Ok(FixInteger(v)) ELSE serialize_u64(v)

serialize_u32(v) == serialize_u64(v)

serialize_int(w, v) ==
    CASE w = "i8" -> serialize_i8(v)
      [] w = "i16" -> serialize_i16(v)
      [] w = "i32" -> serialize_i32(v)
      [] w = "i64" -> serialize_i64(v)
      [] w = "u8" -> serialize_u8(v)
      [] w = "u16" -> serialize_u16(v)
      [] w = "u32" -> serialize_u32(v)
      [] w = "u64" -> serialize_u64(v)

\* eetf::Float::try_from fails with eetf::DecodeError on a non-finite
\* value; `?` turns it into Error::DecodeError (From<eetf::DecodeError>).
serialize_f64(v) == IF v.cls = "finite" THEN Ok(Float(v)) ELSE Err("DecodeError")
serialize_f32(v) == serialize_f64(v)

serialize_str(v) == Ok(Binary(as_bytes(v)))
serialize_char(v) == serialize_str(<<v>>)
serialize_bytes(v) == Ok(Binary(v))

serialize_none == Ok(Atom(NIL))
serialize_unit == serialize_none
serialize_unit_struct == serialize_unit

serialize_unit_variant(variant) == Ok(Atom(to_snake_case(variant)))

RECURSIVE Serialize(_)
RECURSIVE serialize_elements(_, _)
RECURSIVE serialize_entries(_, _)
RECURSIVE serialize_fields(_, _)

serialize_some(value) == Serialize(value)
serialize_newtype_struct(value) == Serialize(value)

serialize_newtype_variant(variant, value) ==
    LET serialized_value == Serialize(value)
    IN  IF ~serialized_value.ok THEN serialized_value
        ELSE Ok(Tuple(<<Atom(to_snake_case(variant)), serialized_value.val>>))

\* One call of serialize_element / serialize_field on a SequenceSerializer
\* or NamedSequenceSerializer holding items: the call's return value and the
\* builder's items afterwards.
SequenceSerializer_serialize_element(items, value) ==
    LET term_value == Serialize(value)
    IN  IF ~term_value.ok THEN [ret |-> term_value, items |-> items]
        ELSE [ret |-> Ok("unit"), items |-> Append(items, term_value.val)]

\* A faulty variant, for comparison: serialize_entry replacing the value of a
\* key the builder already holds.
MapSerializer_serialize_entry_dedup(items, key, value) ==
    LET key_term == Serialize(key)
        value_term == Serialize(value)
        held == {i \in 1..Len(items) : items[i][1] = key_term.val}
    IN  IF ~key_term.ok THEN [ret |-> key_term, items |-> items]
        ELSE IF ~value_term.ok THEN [ret |-> value_term, items |-> items]
        ELSE IF held = {}
        THEN [ret |-> Ok("unit"),
              items |-> Append(items, <<key_term.val, value_term.val>>)]
        ELSE [ret |-> Ok("unit"),
              items |-> [i \in 1..Len(items) |->
                           IF i \in held THEN <<key_term.val, value_term.val>>
                           ELSE items[i]]]

\* One call of serialize_entry on a MapSerializer.
MapSerializer_serialize_entry(items, key, value) ==
    LET key_term == Serialize(key)
        value_term == Serialize(value)
    IN  IF ~key_term.ok THEN [ret |-> key_term, items |-> items]
        ELSE IF ~value_term.ok THEN [ret |-> value_term, items |-> items]
        ELSE [ret |-> Ok("unit"),
              items |-> Append(items, <<key_term.val, value_term.val>>)]

\* serialize_key and serialize_value on a MapSerializer: panic!("Not
\* Implemented").
MapSerializer_serialize_key(items, value) ==
    [ret |-> [ok |-> FALSE, panic |-> "Not Implemented"], items |-> items]
MapSerializer_serialize_value(items, value) ==
    [ret |-> [ok |-> FALSE, panic |-> "Not Implemented"], items |-> items]

\* SerializeMap::end on a MapSerializer.
MapSerializer_end(items) == Ok(Map(items))

\* One call of serialize_field on a MapSerializer (SerializeStruct) or a
\* NamedMapSerializer (SerializeStructVariant).
MapSerializer_serialize_field(items, key, value) ==
    LET value_term == Serialize(value)
    IN  IF ~value_term.ok THEN [ret |-> value_term, items |-> items]
        ELSE [ret |-> Ok("unit"),
              items |-> Append(items, <<Atom(key), value_term.val>>)]

\* SerializeSeq::end, SerializeTuple::end and SerializeTupleStruct::end on a
\* SequenceSerializer, SerializeTupleVariant::end on a
\* NamedSequenceSerializer.
SerializeSeq_end(self) == Ok(List(self.items))
SerializeTuple_end(self) == Ok(Tuple(self.items))
SerializeTupleStruct_end(self) == Ok(Tuple(self.items))
SerializeTupleVariant_end(self) ==
    LET serialized_data == Tuple(self.items)
    IN  Ok(Tuple(<<self.name, serialized_data>>))

\* SerializeStruct::end on a MapSerializer, SerializeStructVariant::end on a
\* NamedMapSerializer.
SerializeStruct_end(self) == Ok(Map(self.items))
SerializeStructVariant_end(self) ==
    LET serialized_data == Map(self.items)
    IN  Ok(Tuple(<<self.name, serialized_data>>))

\* The host type's Serialize implementation feeding its elements, entries or
\* fields to the builder in order, stopping at the first failure.
serialize_elements(values, items) ==
    IF values = <<>> THEN Ok(items)
    ELSE LET r == SequenceSerializer_serialize_element(items, Head(values))
         IN  IF ~r.ret.ok THEN r.ret ELSE serialize_elements(Tail(values), r.items)

serialize_entries(entries, items) ==
    IF entries = <<>> THEN Ok(items)
    ELSE LET r == MapSerializer_serialize_entry(items, Head(entries)[1], Head(entries)[2])
         IN  IF ~r.ret.ok THEN r.ret ELSE serialize_entries(Tail(entries), r.items)

serialize_fields(fields, items) ==
    IF fields = <<>> THEN Ok(items)
    ELSE LET r == MapSerializer_serialize_field(items, Head(fields)[1], Head(fields)[2])
         IN  IF ~r.ret.ok THEN r.ret ELSE serialize_fields(Tail(fields), r.items)

\* serialize_seq, the elements, SerializeSeq::end.
serialize_seq(values) ==
    LET items == serialize_elements(values, <<>>)
    IN  IF ~items.ok THEN items ELSE Ok(List(items.val))

\* A faulty variant, for comparison: SerializeTuple::end building a List.
serialize_tuple_as_list(values) == serialize_seq(values)

\* serialize_tuple, the elements, SerializeTuple::end.
serialize_tuple(values) ==
    LET items == serialize_elements(values, <<>>)
    IN  IF ~items.ok THEN items ELSE Ok(Tuple(items.val))

serialize_tuple_struct(values) == serialize_tuple(values)

\* serialize_tuple_variant, the fields, SerializeTupleVariant::end.
serialize_tuple_variant(variant, values) ==
    LET name == Atom(to_snake_case(variant))
        items == serialize_elements(values, <<>>)
    IN  IF ~items.ok THEN items
        ELSE LET serialized_data == Tuple(items.val)
             IN  Ok(Tuple(<<name, serialized_data>>))

\* serialize_map, the entries, SerializeMap::end.
serialize_map(entries) ==
    LET items == serialize_entries(entries, <<>>)
    IN  IF ~items.ok THEN items ELSE Ok(Map(items.val))

\* serialize_struct, the fields, SerializeStruct::end.
serialize_struct(fields) ==
    LET items == serialize_fields(fields, <<>>)
    IN  IF ~items.ok THEN items ELSE Ok(Map(items.val))

\* A faulty variant, for comparison: SerializeStructVariant::end building the single-entry Map form.
serialize_struct_variant_as_map(variant, fields) ==
    LET items == serialize_fields(fields, <<>>)
    IN  IF ~items.ok THEN items
        ELSE Ok(Map(<< <<Atom(to_snake_case(variant)), Map(items.val)>> >>))

\* serialize_struct_variant, the fields, SerializeStructVariant::end.
serialize_struct_variant(variant, fields) ==
    LET name == Atom(to_snake_case(variant))
        items == serialize_fields(fields, <<>>)
    IN  IF ~items.ok THEN items
        ELSE LET serialized_data == Map(items.val)
             IN  Ok(Tuple(<<name, serialized_data>>))

\* value.serialize(&Serializer {}): the value's Serialize implementation
\* calls the Serializer method of its shape.
Serialize(v) ==
    CASE v.k = "bool" -> serialize_bool(v.v)
      [] v.k = "int" -> serialize_int(v.w, v.v)
      [] v.k = "float" -> IF v.w = "f32" THEN serialize_f32(v.v) ELSE serialize_f64(v.v)
      [] v.k = "char" -> serialize_char(v.v)
      [] v.k = "str" -> serialize_str(v.v)
      [] v.k = "bytes" -> serialize_bytes(v.v)
      [] v.k = "none" -> serialize_none
      [] v.k = "some" -> serialize_some(v.v)
      [] v.k = "unit" -> serialize_unit
      [] v.k = "unit_struct" -> serialize_unit_struct
      [] v.k = "newtype_struct" -> serialize_newtype_struct(v.v)
      [] v.k = "seq" -> serialize_seq(v.items)
      [] v.k = "tuple" -> serialize_tuple(v.items)
      [] v.k = "tuple_struct" -> serialize_tuple_struct(v.items)
      [] v.k = "map" -> serialize_map(v.entries)
      [] v.k = "struct" -> serialize_struct(v.fields)
      [] v.k = "unit_variant" -> serialize_unit_variant(v.name)
      [] v.k = "newtype_variant" -> serialize_newtype_variant(v.name, v.v)
      [] v.k = "tuple_variant" -> serialize_tuple_variant(v.name, v.items)
      [] v.k = "struct_variant" -> serialize_struct_variant(v.name, v.fields)

(***************************************************************************)
(* Type hints: the Deserialize implementation of the target type, which    *)
(* picks the Deserializer method and supplies the Visitor.                 *)
(*   [h |-> "bool"], [h |-> "int", w], [h |-> "float", w], [h |-> "char"], *)
(*   [h |-> "string"], [h |-> "bytes"], [h |-> "option", inner],           *)
(*   [h |-> "unit"], [h |-> "unit_struct"],                                *)
(*   [h |-> "newtype_struct", inner], [h |-> "seq", elem],                 *)
(*   [h |-> "tuple", len, elems], [h |-> "tuple_struct", len, elems],      *)
(*   [h |-> "map", key, val], [h |-> "struct", fields],                    *)
(*   [h |-> "enum", variants], [h |-> "identifier"],                       *)
(*   [h |-> "ignored_any"], [h |-> "any"].                                 *)
(* A tuple visitor pulls one element per entry of elems; the derived ones  *)
(* have len = Len(elems).  fields is a sequence of <<name, hint>>; a       *)
(* variant is [name, shape |-> "unit" | "newtype" | "tuple" | "struct"]    *)
(* with inner, or len and elems, or fields.                                *)
(***************************************************************************)
Some(x) == [some |-> TRUE, v |-> x]
None == [some |-> FALSE]
Panic(msg) == [ok |-> FALSE, panic |-> msg]

\* Deserializer::parse_integer::<T>: T::from_i32 and T::from_i64 are Some
\* exactly on T's range, BigInt::to_i64 exactly on i64's.
parse_integer(term, w) ==
    CASE term.kind = "FixInteger" ->
           IF term.value \in RangeOf(w) THEN Ok(term.value)
           ELSE Err("IntegerConvertError")
      [] term.kind = "BigInteger" ->
           IF term.value \in RangeOf("i64")
           THEN IF term.value \in RangeOf(w) THEN Ok(term.value)
                ELSE Err("IntegerConvertError")
           ELSE Err("IntegerConvertError")
      [] OTHER -> Err("ExpectedFixInteger")

\* A faulty variant, for comparison: an integer node widened to a float.
parse_float_coercing(term, w) ==
    IF term.kind = "Float" THEN Ok(term.value)
    ELSE IF term.kind \in {"FixInteger", "BigInteger"}
    THEN Ok([cls |-> "finite", num |-> term.value])
    ELSE Err("ExpectedFloat")

\* Deserializer::parse_float::<T>: from_f64 is a cast, Some for f32 and f64.
parse_float(term, w) ==
    IF term.kind = "Float" THEN Ok(term.value) ELSE Err("ExpectedFloat")

parse_binary(term) ==
    IF term.kind = "Binary" THEN Ok(term.bytes) ELSE Err("ExpectedBinary")

parse_string(term) ==
    LET bytes == parse_binary(term)
    IN  IF ~bytes.ok THEN bytes
        ELSE LET s == from_utf8(bytes.val, <<>>)
             IN  IF s.ok THEN s ELSE Err("Utf8DecodeError")

\* A faulty variant, for comparison: a generic decode of the plain integer
\* node.
deserialize_any_generic(term) ==
    IF term.kind = "FixInteger" THEN Ok([k |-> "int", w |-> "i32", v |-> term.value])
    ELSE Err("TypeHintsRequired")

deserialize_any(term) == Err("TypeHintsRequired")

deserialize_bool(term) ==
    IF term.kind = "Atom"
    THEN IF term.name = TRUE_NAME THEN Ok([k |-> "bool", v |-> TRUE])
         ELSE IF term.name = FALSE_NAME THEN Ok([k |-> "bool", v |-> FALSE])
         ELSE Err("InvalidBoolean")
    ELSE Err("ExpectedBoolean")

\* deserialize_i8 .. deserialize_u64.
deserialize_int(term, w) ==
    LET n == parse_integer(term, w)
    IN  IF ~n.ok THEN n ELSE Ok([k |-> "int", w |-> w, v |-> n.val])

\* deserialize_f32, deserialize_f64.
deserialize_float(term, w) ==
    LET n == parse_float(term, w)
    IN  IF ~n.ok THEN n ELSE Ok([k |-> "float", w |-> w, v |-> n.val])

\* string.len() is the length in bytes.
deserialize_char(term) ==
    LET string == parse_string(term)
    IN  IF ~string.ok
        THEN IF string.err = "ExpectedBinary" THEN Err("ExpectedChar") ELSE string
        ELSE IF Len(as_bytes(string.val)) = 1
             THEN Ok([k |-> "char", v |-> string.val[1]])
             ELSE Err("ExpectedChar")

deserialize_str(term) ==
    LET string == parse_string(term)
    IN  IF ~string.ok THEN string ELSE Ok([k |-> "str", v |-> string.val])

deserialize_string(term) == deserialize_str(term)

\* A faulty variant, for comparison: a byte blob validated as UTF-8.
deserialize_bytes_validated(term) ==
    LET string == parse_string(term)
    IN  IF ~string.ok THEN string ELSE Ok([k |-> "bytes", v |-> term.bytes])

\* deserialize_bytes, deserialize_byte_buf.
deserialize_bytes(term) ==
    LET bytes == parse_binary(term)
    IN  IF ~bytes.ok THEN bytes ELSE Ok([k |-> "bytes", v |-> bytes.val])

deserialize_unit(term) ==
    IF term.kind = "Atom"
    THEN IF term.name = NIL THEN Ok([k |-> "unit"]) ELSE Err("ExpectedNil")
    ELSE Err("ExpectedNil")

deserialize_unit_struct(term) ==
    LET u == deserialize_unit(term)
    IN  IF ~u.ok THEN u ELSE Ok([k |-> "unit_struct"])

deserialize_identifier(term) ==
    IF term.kind = "Atom" THEN Ok(term.name) ELSE Err("ExpectedAtom")

deserialize_ignored_any(term) == Ok([k |-> "unit"])

\* VariantNameDeserializer: every method forwards to deserialize_any.
VariantNameDeserializer_deserialize_any(term) ==
    IF term.kind = "Atom" THEN Ok(to_camel_case(term.name)) ELSE Err("ExpectedAtom")

(***************************************************************************)
(* The access cursors and the compound Deserializer methods.  A cursor     *)
(* operation returns the call's return value (ret) and the cursor          *)
(* afterwards (self).                                                      *)
(***************************************************************************)
RECURSIVE Deserialize(_, _)
RECURSIVE VecVisitor_visit_seq(_, _, _)
RECURSIVE TupleVisitor_visit_seq(_, _, _)
RECURSIVE MapVisitor_visit_map(_, _, _, _)
RECURSIVE StructVisitor_visit_map(_, _, _)

\* ListDeserializer::new: the fused iterator over the elements.
ListDeserializer_new(elements) == [iter |-> elements]

ListDeserializer_end(self) ==
    IF Len(self.iter) = 0 THEN Ok("unit") ELSE Err("TooManyItems")

\* SeqAccess::next_element_seed, the seed being the element type's hint.
ListDeserializer_next_element_seed(self, seed) ==
    IF self.iter # <<>>
    THEN LET v == Deserialize(Head(self.iter), seed)
         IN  [ret |-> IF v.ok THEN Ok(Some(v.val)) ELSE v,
              self |-> [iter |-> Tail(self.iter)]]
    ELSE [ret |-> Ok(None), self |-> self]

\* MapDeserializer::new.
MapDeserializer_new(entries) == [items |-> entries, current_value |-> None]

\* A faulty variant, for comparison: end also refusing a pending value.
MapDeserializer_end_strict(self) ==
    IF Len(self.items) = 0 /\ ~self.current_value.some THEN Ok("unit")
    ELSE Err("TooManyItems")

\* MapDeserializer::end.
MapDeserializer_end(self) ==
    IF Len(self.items) = 0 THEN Ok("unit") ELSE Err("TooManyItems")

\* A faulty variant, for comparison: next_key_seed without the check of
\* current_value, the pending value being overwritten.
MapDeserializer_next_key_seed_unchecked(self, seed) ==
    IF self.items # <<>>
    THEN LET pair == Head(self.items)
             k == Deserialize(pair[1], seed)
         IN  [ret |-> IF k.ok THEN Ok(Some(k.val)) ELSE k,
              self |-> [items |-> Tail(self.items), current_value |-> Some(pair[2])]]
    ELSE [ret |-> Ok(None), self |-> self]

\* MapAccess::next_key_seed.
MapDeserializer_next_key_seed(self, seed) ==
    IF self.current_value.some
    THEN [ret |-> Panic("MapDeserializer.next_key_seed was called twice in a row"),
          self |-> self]
    ELSE IF self.items # <<>>
    THEN LET pair == Head(self.items)
             k == Deserialize(pair[1], seed)
         IN  [ret |-> IF k.ok THEN Ok(Some(k.val)) ELSE k,
              self |-> [items |-> Tail(self.items), current_value |-> Some(pair[2])]]
    ELSE [ret |-> Ok(None), self |-> self]

\* A faulty variant, for comparison: next_value_seed leaving current_value
\* in place.
MapDeserializer_next_value_seed_keeping(self, seed) ==
    IF self.current_value.some
    THEN [ret |-> Deserialize(self.current_value.v, seed), self |-> self]
    ELSE [ret |-> Panic("MapDeserializer.next_value_seed was called before next_key_seed"),
          self |-> self]

\* MapAccess::next_value_seed.
MapDeserializer_next_value_seed(self, seed) ==
    IF self.current_value.some
    THEN [ret |-> Deserialize(self.current_value.v, seed),
          self |-> [self EXCEPT !.current_value = None]]
    ELSE [ret |-> Panic("MapDeserializer.next_value_seed was called before next_key_seed"),
          self |-> self]

(***************************************************************************)
(* The visitors of serde's own and derived Deserialize implementations,    *)
(* as far as they drive the cursors.  A seq visitor returns the items it   *)
(* built; a map visitor returns its value and the cursor it leaves.        *)
(***************************************************************************)
\* Vec<T>: pull until the cursor is exhausted.
VecVisitor_visit_seq(seq, elem, acc) ==
    LET r == ListDeserializer_next_element_seed(seq, elem)
    IN  IF ~r.ret.ok THEN r.ret
        ELSE IF ~r.ret.val.some THEN Ok(acc)
        ELSE VecVisitor_visit_seq(r.self, elem, Append(acc, r.ret.val.v))

\* Tuples, tuple structs, tuple variants: one pull per declared element, a
\* missing element is de::Error::invalid_length.
TupleVisitor_visit_seq(seq, elems, acc) ==
    IF elems = <<>> THEN Ok(acc)
    ELSE LET r == ListDeserializer_next_element_seed(seq, Head(elems))
         IN  IF ~r.ret.ok THEN r.ret
             ELSE IF ~r.ret.val.some THEN Err("Message")
             ELSE TupleVisitor_visit_seq(r.self, Tail(elems), Append(acc, r.ret.val.v))

\* BTreeMap::insert: entries are kept in key order, a present key is replaced.
RECURSIVE Insert(_, _, _)
Insert(entries, key, val) ==
    IF entries = <<>> THEN << <<key, val>> >>
    ELSE IF Head(entries)[1] = key THEN << <<key, val>> >> \o Tail(entries)
    ELSE IF Head(entries)[1].v > key.v THEN << <<key, val>> >> \o entries
    ELSE <<Head(entries)>> \o Insert(Tail(entries), key, val)

\* BTreeMap<K, V>: next_entry until the cursor is exhausted.
MapVisitor_visit_map(map, key, val, acc) ==
    LET k == MapDeserializer_next_key_seed(map, key)
    IN  IF ~k.ret.ok THEN k
        ELSE IF ~k.ret.val.some THEN [ret |-> Ok(acc), self |-> k.self]
        ELSE LET v == MapDeserializer_next_value_seed(k.self, val)
             IN  IF ~v.ret.ok THEN v
                 ELSE MapVisitor_visit_map(v.self, key, val,
                                           Insert(acc, k.ret.val.v, v.ret.val))

\* The derived __Field visitor: the index of the field or variant named
\* name, 0 when there is none.
FieldIndex(fields, name) ==
    IF \E i \in 1..Len(fields) : fields[i][1] = name
    THEN CHOOSE i \in 1..Len(fields) : fields[i][1] = name
    ELSE 0

\* The end of a derived visit_map: a field never seen is missing_field,
\* which is None for an Option and an error otherwise.
RECURSIVE MissingFields(_, _, _)
MissingFields(fields, slots, acc) ==
    IF fields = <<>> THEN Ok(acc)
    ELSE IF Head(slots).some
    THEN MissingFields(Tail(fields), Tail(slots),
                       Append(acc, <<Head(fields)[1], Head(slots).v>>))
    ELSE IF Head(fields)[2].h = "option"
    THEN MissingFields(Tail(fields), Tail(slots),
                       Append(acc, <<Head(fields)[1], [k |-> "none"]>>))
    ELSE Err("Message")

\* The derived visitor's locals, one Option per field.
RECURSIVE EmptySlots(_)
EmptySlots(fields) == IF fields = <<>> THEN <<>> ELSE <<None>> \o EmptySlots(Tail(fields))

SetSlot(slots, i, x) == SubSeq(slots, 1, i - 1) \o <<x>> \o SubSeq(slots, i + 1, Len(slots))

\* A derived struct (or struct variant) visitor: keys are field identifiers,
\* an unknown key's value is skipped as IgnoredAny, a repeated field is
\* duplicate_field.
StructVisitor_visit_map(map, fields, slots) ==
    LET k == MapDeserializer_next_key_seed(map, [h |-> "identifier"])
    IN  IF ~k.ret.ok THEN k
        ELSE IF ~k.ret.val.some
        THEN [ret |-> MissingFields(fields, slots, <<>>), self |-> k.self]
        ELSE LET i == FieldIndex(fields, k.ret.val.v)
             IN  IF i = 0
                 THEN LET v == MapDeserializer_next_value_seed(k.self, [h |-> "ignored_any"])
                      IN  IF ~v.ret.ok THEN v
                          ELSE StructVisitor_visit_map(v.self, fields, slots)
                 ELSE IF slots[i].some THEN [ret |-> Err("Message"), self |-> k.self]
                 ELSE LET v == MapDeserializer_next_value_seed(k.self, fields[i][2])
                      IN  IF ~v.ret.ok THEN v
                          ELSE StructVisitor_visit_map(v.self, fields,
                                   SetSlot(slots, i, Some(v.ret.val)))

(***************************************************************************)
(* The compound methods of impl de::Deserializer for Deserializer.         *)
(***************************************************************************)
\* A faulty variant, for comparison: every atom taken for an absent optional.
deserialize_option_any_atom(term, inner) ==
    IF term.kind = "Atom" THEN Ok([k |-> "none"])
    ELSE LET v == Deserialize(term, inner)
         IN  IF ~v.ok THEN v ELSE Ok([k |-> "some", v |-> v.val])

\* A faulty variant, for comparison: visit_some handing the visitor a unit instead of the node.
deserialize_option_some_unit(term, inner) ==
    IF term.kind = "Atom" /\ term.name = NIL THEN Ok([k |-> "none"])
    ELSE Ok([k |-> "some", v |-> [k |-> "unit"]])

deserialize_option(term, inner) ==
    IF term.kind = "Atom" /\ term.name = NIL THEN Ok([k |-> "none"])
    ELSE LET v == Deserialize(term, inner)
         IN  IF ~v.ok THEN v ELSE Ok([k |-> "some", v |-> v.val])

deserialize_newtype_struct(term, inner) ==
    LET v == Deserialize(term, inner)
    IN  IF ~v.ok THEN v ELSE Ok([k |-> "newtype_struct", v |-> v.val])

\* deserialize_seq up to the call of visit_seq: the cursor handed to the
\* visitor, or the error.
deserialize_seq_access(term) ==
    IF term.kind = "List" THEN Ok(ListDeserializer_new(term.elements))
    ELSE Err("ExpectedList")

\* A faulty variant, for comparison: deserialize_tuple without the length check.
deserialize_tuple_access_unchecked(term, len) ==
    IF term.kind = "Tuple" THEN Ok(ListDeserializer_new(term.elements))
    ELSE Err("ExpectedTuple")

\* deserialize_tuple(len, visitor) up to the call of visit_seq.
deserialize_tuple_access(term, len) ==
    IF term.kind = "Tuple"
    THEN IF Len(term.elements) # len THEN Err("WrongTupleLength")
         ELSE Ok(ListDeserializer_new(term.elements))
    ELSE Err("ExpectedTuple")

\* What deserialize_seq and deserialize_tuple return once visit_seq has
\* returned ret and left the cursor self: ret as it is ("TODO: Figure out how
\* to call end here"), ListDeserializer::end is never called.
visit_seq_return(self, ret) == ret

\* deserialize_seq with the Vec visitor.
deserialize_seq(term, elem) ==
    LET access == deserialize_seq_access(term)
    IN  IF ~access.ok THEN access
        ELSE VecVisitor_visit_seq(access.val, elem, <<>>)

\* deserialize_tuple with a tuple visitor.
deserialize_tuple(term, len, elems) ==
    LET access == deserialize_tuple_access(term, len)
    IN  IF ~access.ok THEN access
        ELSE TupleVisitor_visit_seq(access.val, elems, <<>>)

deserialize_tuple_struct(term, len, elems) == deserialize_tuple(term, len, elems)

\* A faulty variant, for comparison: the cursor is not checked after visit_map.
AndThenEnd_unchecked(r) == r.ret

\* visit_map(&mut map_deserializer).and_then(|result| map_deserializer.end())
AndThenEnd(r) ==
    IF ~r.ret.ok THEN r.ret
    ELSE LET e == MapDeserializer_end(r.self)
         IN  IF e.ok THEN r.ret ELSE e

\* deserialize_map, deserialize_struct up to the call of visit_map: the
\* cursor handed to the visitor, or the error.
deserialize_map_access(term) ==
    IF term.kind = "Map" THEN Ok(MapDeserializer_new(term.entries))
    ELSE Err("ExpectedMap")

deserialize_map(term, key, val) ==
    IF term.kind = "Map"
    THEN AndThenEnd(MapVisitor_visit_map(MapDeserializer_new(term.entries), key, val, <<>>))
    ELSE Err("ExpectedMap")

\* deserialize_map with a derived struct-variant visitor.
deserialize_map_fields(term, fields) ==
    IF term.kind = "Map"
    THEN AndThenEnd(StructVisitor_visit_map(MapDeserializer_new(term.entries), fields,
                                            EmptySlots(fields)))
    ELSE Err("ExpectedMap")

deserialize_struct(term, fields) ==
    IF term.kind = "Map"
    THEN AndThenEnd(StructVisitor_visit_map(MapDeserializer_new(term.entries), fields,
                                            EmptySlots(fields)))
    ELSE Err("ExpectedMap")

\* A faulty variant, for comparison: the Atom arm answering a payload request
\* with ExpectedAtom.
StringDeserializer_visit_enum_expected_atom(name, variants) ==
    LET i == FieldIndex([j \in 1..Len(variants) |-> <<variants[j].name>>], name)
    IN  IF i = 0 THEN Err("Message")
        ELSE IF variants[i].shape = "unit"
        THEN Ok([k |-> "unit_variant", name |-> variants[i].name])
        ELSE Err("ExpectedAtom")

\* serde's StringDeserializer as EnumAccess (the Atom arm): the variant is
\* the string itself, and only unit_variant succeeds on it.
StringDeserializer_visit_enum(name, variants) ==
    LET i == FieldIndex([j \in 1..Len(variants) |-> <<variants[j].name>>], name)
    IN  IF i = 0 THEN Err("Message")
        ELSE IF variants[i].shape = "unit"
        THEN Ok([k |-> "unit_variant", name |-> variants[i].name])
        ELSE Err("Message")

\* VariantAccess for EnumDeserializer.
EnumDeserializer_unit_variant(term) == Err("ExpectedAtom")
EnumDeserializer_newtype_variant_seed(term, seed) == Deserialize(term, seed)
EnumDeserializer_tuple_variant(term, len, elems) == deserialize_tuple(term, len, elems)
EnumDeserializer_struct_variant(term, fields) == deserialize_map_fields(term, fields)

\* EnumAccess::variant_seed with the derived __Field seed, then the derived
\* enum visitor's call of the VariantAccess method of the variant's shape.
EnumDeserializer_visit_enum(variant, term, variants) ==
    LET val == VariantNameDeserializer_deserialize_any(variant)
        i == FieldIndex([j \in 1..Len(variants) |-> <<variants[j].name>>], val.val)
        d == variants[i]
    IN  IF ~val.ok THEN val
        ELSE IF i = 0 THEN Err("Message")
        ELSE CASE d.shape = "unit" ->
                    LET u == EnumDeserializer_unit_variant(term)
                    IN  IF ~u.ok THEN u ELSE Ok([k |-> "unit_variant", name |-> d.name])
               [] d.shape = "newtype" ->
                    LET v == EnumDeserializer_newtype_variant_seed(term, d.inner)
                    IN  IF ~v.ok THEN v
                        ELSE Ok([k |-> "newtype_variant", name |-> d.name, v |-> v.val])
               [] d.shape = "tuple" ->
                    LET v == EnumDeserializer_tuple_variant(term, d.len, d.elems)
                    IN  IF ~v.ok THEN v
                        ELSE Ok([k |-> "tuple_variant", name |-> d.name, items |-> v.val])
               [] d.shape = "struct" ->
                    LET v == EnumDeserializer_struct_variant(term, d.fields)
                    IN  IF ~v.ok THEN v
                        ELSE Ok([k |-> "struct_variant", name |-> d.name, fields |-> v.val])

\* A faulty variant, for comparison: the single-entry Map taken as a second form of a variant.
deserialize_enum_with_map(term, variants) ==
    CASE term.kind = "Atom" ->
           StringDeserializer_visit_enum(to_camel_case(term.name), variants)
      [] term.kind = "Tuple" ->
           IF Len(term.elements) = 2
           THEN EnumDeserializer_visit_enum(term.elements[1], term.elements[2], variants)
           ELSE Err("MisSizedVariantTuple")
      [] term.kind = "Map" /\ Len(term.entries) = 1 ->
           EnumDeserializer_visit_enum(term.entries[1][1], term.entries[1][2], variants)
      [] OTHER -> Err("ExpectedAtomOrTuple")

\* A faulty variant, for comparison: a variant tuple of two or more elements accepted.
deserialize_enum_long_tuple(term, variants) ==
    CASE term.kind = "Atom" ->
           StringDeserializer_visit_enum(to_camel_case(term.name), variants)
      [] term.kind = "Tuple" ->
           IF Len(term.elements) >= 2
           THEN EnumDeserializer_visit_enum(term.elements[1], term.elements[2], variants)
           ELSE Err("MisSizedVariantTuple")
      [] OTHER -> Err("ExpectedAtomOrTuple")

deserialize_enum(term, variants) ==
    CASE term.kind = "Atom" ->
           StringDeserializer_visit_enum(to_camel_case(term.name), variants)
      [] term.kind = "Tuple" ->
           IF Len(term.elements) = 2
           THEN EnumDeserializer_visit_enum(term.elements[1], term.elements[2], variants)
           ELSE Err("MisSizedVariantTuple")
      [] OTHER -> Err("ExpectedAtomOrTuple")

Wrap(r, kind) == IF ~r.ok THEN r ELSE Ok([k |-> kind, items |-> r.val])

\* T::deserialize(Deserializer::from_term(term)) for the type hint describes.
Deserialize(term, hint) ==
    CASE hint.h = "bool" -> deserialize_bool(term)
      [] hint.h = "int" -> deserialize_int(term, hint.w)
      [] hint.h = "float" -> deserialize_float(term, hint.w)
      [] hint.h = "char" -> deserialize_char(term)
      [] hint.h = "string" -> deserialize_string(term)
      [] hint.h = "bytes" -> deserialize_bytes(term)
      [] hint.h = "option" -> deserialize_option(term, hint.inner)
      [] hint.h = "unit" -> deserialize_unit(term)
      [] hint.h = "unit_struct" -> deserialize_unit_struct(term)
      [] hint.h = "newtype_struct" -> deserialize_newtype_struct(term, hint.inner)
      [] hint.h = "seq" -> Wrap(deserialize_seq(term, hint.elem), "seq")
      [] hint.h = "tuple" -> Wrap(deserialize_tuple(term, hint.len, hint.elems), "tuple")
      [] hint.h = "tuple_struct" ->
           Wrap(deserialize_tuple_struct(term, hint.len, hint.elems), "tuple_struct")
      [] hint.h = "map" ->
           LET m == deserialize_map(term, hint.key, hint.val)
           IN  IF ~m.ok THEN m ELSE Ok([k |-> "map", entries |-> m.val])
      [] hint.h = "struct" ->
           LET m == deserialize_struct(term, hint.fields)
           IN  IF ~m.ok THEN m ELSE Ok([k |-> "struct", fields |-> m.val])
      [] hint.h = "enum" -> deserialize_enum(term, hint.variants)
      [] hint.h = "identifier" -> deserialize_identifier(term)
      [] hint.h = "ignored_any" -> deserialize_ignored_any(term)
      [] hint.h = "any" -> deserialize_any(term)

(***************************************************************************)
(* The types, values and terms the model runs the crate on.                *)
(***************************************************************************)
IntHint(w) == [h |-> "int", w |-> w]
U8 == IntHint("u8")
BOOL == [h |-> "bool"]
UNIT == [h |-> "unit"]
OptionOf(t) == [h |-> "option", inner |-> t]
SeqOf(t) == [h |-> "seq", elem |-> t]
TupleOf(elems) == [h |-> "tuple", len |-> Len(elems), elems |-> elems]
TupleStructOf(elems) == [h |-> "tuple_struct", len |-> Len(elems), elems |-> elems]
MapOf(key, val) == [h |-> "map", key |-> key, val |-> val]
StructOf(fields) == [h |-> "struct", fields |-> fields]

\* Identifiers: field names x, y and the variant names of enum E.
X == <<120>>
Y == <<121>>
AnOption == <<65, 110, 79, 112, 116, 105, 111, 110>>
OkName == <<79, 107>>
PairName == <<80, 97, 105, 114>>
RecName == <<82, 101, 99>>
NilName == <<78, 105, 108>>
IOName == <<73, 79>>
IOPortName == <<73, 79, 80, 111, 114, 116>>

\* enum E { AnOption, Ok(u8), Pair(u8, bool), Rec { x: u8 }, Nil, IO,
\*          IOPort(u8) }
E ==
    [h |-> "enum",
     variants |->
        <<[name |-> AnOption, shape |-> "unit"],
          [name |-> OkName, shape |-> "newtype", inner |-> U8],
          [name |-> PairName, shape |-> "tuple", len |-> 2, elems |-> <<U8, BOOL>>],
          [name |-> RecName, shape |-> "struct", fields |-> << <<X, U8>> >>],
          [name |-> NilName, shape |-> "unit"],
          [name |-> IOName, shape |-> "unit"],
          [name |-> IOPortName, shape |-> "newtype", inner |-> U8]>>]

\* The target types of the model.
Types ==
    <<IntHint("i8"), IntHint("i16"), IntHint("i32"), IntHint("i64"),
      IntHint("u8"), IntHint("u16"), IntHint("u32"), IntHint("u64"),
      BOOL, UNIT, [h |-> "unit_struct"], [h |-> "string"], [h |-> "char"],
      [h |-> "bytes"], [h |-> "float", w |-> "f64"], [h |-> "float", w |-> "f32"],
      [h |-> "newtype_struct", inner |-> U8],
      OptionOf(U8), OptionOf(OptionOf(U8)), OptionOf(UNIT), OptionOf(BOOL),
      OptionOf(E), OptionOf(SeqOf(U8)),
      SeqOf(U8), SeqOf(TupleOf(<<U8, BOOL>>)), SeqOf([h |-> "float", w |-> "f64"]),
      TupleOf(<<U8, BOOL>>), TupleOf(<<IntHint("u64"), SeqOf(BOOL)>>),
      TupleStructOf(<<IntHint("i8"), IntHint("i64")>>), TupleStructOf(<<>>),
      MapOf(U8, BOOL), MapOf(U8, TupleOf(<<BOOL, BOOL>>)),
      StructOf(<< <<X, IntHint("i8")>>, <<Y, IntHint("u32")>> >>),
      StructOf(<< <<X, SeqOf(BOOL)>>, <<Y, OptionOf(U8)>> >>),
      E>>

SeqsUpTo(S, n) == UNION {[1..m -> S] : m \in 0..n}

\* The entry lists of a BTreeMap with keys in K and values in V: the keys
\* strictly increasing.
EntriesOf(K, V) ==
    UNION {{[i \in 1..Len(ks) |-> <<ks[i], vs[i]>>] : vs \in [1..Len(ks) -> V]} :
             ks \in {s \in SeqsUpTo(K, MaxLen) :
                       \A i \in 1..(Len(s) - 1) : s[i].v < s[i + 1].v}}

Strings == {<<>>, <<97>>, <<97, 98>>, <<233>>}
Chars == {97, 233}
Floats == {[cls |-> "finite", num |-> 0], [cls |-> "finite", num |-> 1],
           [cls |-> "nan", num |-> 0], [cls |-> "inf", num |-> 0]}

RECURSIVE ValuesOf(_)
RECURSIVE ProductOf(_)
RECURSIVE FieldsOf(_)

\* The argument lists of a tuple-like type.
ProductOf(elems) ==
    IF elems = <<>> THEN {<<>>}
    ELSE {<<x>> \o rest : x \in ValuesOf(Head(elems)), rest \in ProductOf(Tail(elems))}

\* The field lists of a record type, in declaration order.
FieldsOf(fields) ==
    IF fields = <<>> THEN {<<>>}
    ELSE {<< <<Head(fields)[1], x>> >> \o rest :
            x \in ValuesOf(Head(fields)[2]), rest \in FieldsOf(Tail(fields))}

VariantValues(d) ==
    CASE d.shape = "unit" -> {[k |-> "unit_variant", name |-> d.name]}
      [] d.shape = "newtype" ->
           {[k |-> "newtype_variant", name |-> d.name, v |-> x] : x \in ValuesOf(d.inner)}
      [] d.shape = "tuple" ->
           {[k |-> "tuple_variant", name |-> d.name, items |-> xs] :
              xs \in ProductOf(d.elems)}
      [] d.shape = "struct" ->
           {[k |-> "struct_variant", name |-> d.name, fields |-> fs] :
              fs \in FieldsOf(d.fields)}

\* The values of a type; a map is a BTreeMap, iterated in key order.
ValuesOf(t) ==
    CASE t.h = "bool" -> {[k |-> "bool", v |-> b] : b \in BOOLEAN}
      [] t.h = "int" -> {[k |-> "int", w |-> t.w, v |-> n] : n \in RangeOf(t.w)}
      [] t.h = "float" -> {[k |-> "float", w |-> t.w, v |-> f] : f \in Floats}
      [] t.h = "char" -> {[k |-> "char", v |-> c] : c \in Chars}
      [] t.h = "string" -> {[k |-> "str", v |-> str] : str \in Strings}
      [] t.h = "bytes" -> {[k |-> "bytes", v |-> b] : b \in {<<>>, <<97>>, <<255>>}}
      [] t.h = "unit" -> {[k |-> "unit"]}
      [] t.h = "unit_struct" -> {[k |-> "unit_struct"]}
      [] t.h = "option" ->
           {[k |-> "none"]} \cup {[k |-> "some", v |-> x] : x \in ValuesOf(t.inner)}
      [] t.h = "newtype_struct" ->
           {[k |-> "newtype_struct", v |-> x] : x \in ValuesOf(t.inner)}
      [] t.h = "seq" ->
           {[k |-> "seq", items |-> xs] : xs \in SeqsUpTo(ValuesOf(t.elem), MaxLen)}
      [] t.h = "tuple" -> {[k |-> "tuple", items |-> xs] : xs \in ProductOf(t.elems)}
      [] t.h = "tuple_struct" ->
           {[k |-> "tuple_struct", items |-> xs] : xs \in ProductOf(t.elems)}
      [] t.h = "map" ->
           {[k |-> "map", entries |-> es] :
              es \in EntriesOf(ValuesOf(t.key), ValuesOf(t.val))}
      [] t.h = "struct" -> {[k |-> "struct", fields |-> fs] : fs \in FieldsOf(t.fields)}
      [] t.h = "enum" -> UNION {VariantValues(t.variants[i]) : i \in 1..Len(t.variants)}

\* Terms handed to the Deserializer from outside.
Ok_ == <<111, 107>>
Pair_ == <<112, 97, 105, 114>>
Rec_ == <<114, 101, 99>>
AnOption_ == <<97, 110, 95, 111, 112, 116, 105, 111, 110>>

LeafTerms ==
    {Atom(NIL), Atom(TRUE_NAME), Atom(Ok_), Atom(AnOption_), Atom(Pair_), Atom(Rec_),
     FixInteger(0), FixInteger(1), BigInteger(1), BigInteger(MaxOf("i64") + 1),
     Float([cls |-> "finite", num |-> 1]), Binary(<<97>>), Binary(<<255>>),
     Binary(<<195, 169>>), Binary(<<195>>),
     [kind |-> "Pid"]}

ElemTerms == {Atom(NIL), Atom(TRUE_NAME), FixInteger(1), Binary(<<97>>)}

ListTerms == {List(es) : es \in SeqsUpTo(ElemTerms, MaxLen + 1)}
TupleTerms == {Tuple(es) : es \in SeqsUpTo(ElemTerms, MaxLen + 1)}
MapTerms ==
    {Map(es) : es \in SeqsUpTo({Atom(X), Atom(Y), FixInteger(1)}
                               \X {FixInteger(1), Atom(TRUE_NAME), List(<<>>)}, MaxLen)}

\* The two wire forms of an externally tagged variant.
Tags == {Atom(Ok_), Atom(Pair_), Atom(Rec_), Atom(AnOption_), FixInteger(0)}
Payloads ==
    {FixInteger(1), Atom(TRUE_NAME), Map(<<>>), Map(<< <<Atom(X), FixInteger(1)>> >>),
     Map(<< <<Atom(X), FixInteger(1)>>, <<Atom(Y), FixInteger(1)>> >>),
     List(<<FixInteger(1), Atom(TRUE_NAME)>>)} \cup TupleTerms
TaggedTuples == {Tuple(<<tag, payload>>) : tag \in Tags, payload \in Payloads}
TaggedMaps == {Map(<< <<tag, payload>> >>) : tag \in Tags, payload \in Payloads}

Terms == LeafTerms \cup ListTerms \cup TupleTerms \cup MapTerms
            \cup TaggedTuples \cup TaggedMaps

\* The target types that ask for a value without a hint, at top level or for
\* a part: a type whose Deserialize implementation calls deserialize_any.
ANY == [h |-> "any"]
AnyHints ==
    {ANY, OptionOf(ANY), [h |-> "newtype_struct", inner |-> ANY], SeqOf(ANY),
     TupleOf(<<U8, ANY>>), MapOf(U8, ANY), StructOf(<< <<X, ANY>> >>)}

\* The seeds a hand-written visitor pulls elements with.
Seeds == {U8, BOOL}

\* The maps a hand-written visitor is given a cursor over.
CursorMaps ==
    {Map(es) : es \in SeqsUpTo({Atom(X), FixInteger(1)}
                               \X {FixInteger(1), Atom(TRUE_NAME)}, MaxLen)}

\* The seeds a hand-written visitor pulls keys and values with.
KeySeeds == {[h |-> "identifier"], U8}
ValueSeeds == {U8, [h |-> "ignored_any"]}

\* The keys and values a hand-written Serialize implementation feeds a
\* MapSerializer.
EntryKeys == {[k |-> "int", w |-> "u8", v |-> 0], [k |-> "int", w |-> "u8", v |-> 1]}
EntryValues ==
    {[k |-> "bool", v |-> TRUE],
     [k |-> "float", w |-> "f64", v |-> [cls |-> "finite", num |-> 1]],
     [k |-> "float", w |-> "f64", v |-> [cls |-> "nan", num |-> 0]]}

\* The Serializer methods that hand out a SequenceSerializer, and the
\* variants a NamedSequenceSerializer or NamedMapSerializer is asked for.
SeqMethods == {"serialize_seq", "serialize_tuple", "serialize_tuple_struct"}
BuilderVariants == {PairName, RecName}

\* The three callers of a map decode.
MapMethods == {"deserialize_map", "deserialize_struct", "struct_variant"}

\* The calls a visitor makes on one Map Access cursor: enough to pull every
\* entry and to go on after the last.
MaxCalls == 2 * MaxLen + 2

(***************************************************************************)
(* The state machine: one call of the crate at a time.                     *)
(*   pc      "idle", "encoded" (to_bytes returned), "decoded" (from_bytes  *)
(*           returned on the bytes of to_bytes), "parsed" (a decode of a   *)
(*           term from outside returned), "visit_seq" (a visitor holds a   *)
(*           Sequence Access cursor), "visited" (that visitor returned its *)
(*           value), "visit_failed" (it returned a pull's error),          *)
(*           "visit_map" (a visitor holds a Map Access cursor),            *)
(*           "visited_map" (that visitor returned its value),              *)
(*           "panicked" (a cursor or builder operation panicked),          *)
(*           "serialize_seq", "serialize_map", "serialize_struct" (a       *)
(*           Serialize implementation holds a sequence, map or struct      *)
(*           builder), "built" (its end returned), "build_failed" (it      *)
(*           returned an addition's error)                                 *)
(*   value   the value given to to_bytes                                   *)
(*   hint    the target type of the decode                                 *)
(*   term    the Result of the Serializer, or Ok(the term to decode)       *)
(*   result  the Result of the decode                                      *)
(*   access  the ListDeserializer the visitor holds                        *)
(*   acc     the elements, keys and values the visitor has pulled          *)
(*   map_deserializer  the MapDeserializer the visitor holds               *)
(*   map_serializer    the MapSerializer or NamedMapSerializer a Serialize *)
(*           implementation holds                                          *)
(*   sequence_serializer  the SequenceSerializer or                        *)
(*           NamedSequenceSerializer it holds                              *)
(*   calls   the calls made so far on the Map Access cursor or the builder *)
(***************************************************************************)
VARIABLES pc, value, hint, term, result, access, acc, map_deserializer,
          map_serializer, sequence_serializer, calls

vars ==
    <<pc, value, hint, term, result, access, acc, map_deserializer, map_serializer,
      sequence_serializer, calls>>

NoValue == [k |-> "no_value"]
NoHint == [h |-> "no_hint"]
NoTerm == [kind |-> "no_term"]
Pending == [pending |-> TRUE]

Init ==
    /\ pc = "idle"
    /\ value = NoValue
    /\ hint = NoHint
    /\ term = Ok(NoTerm)
    /\ result = Pending
    /\ access = ListDeserializer_new(<<>>)
    /\ acc = <<>>
    /\ map_deserializer = MapDeserializer_new(<<>>)
    /\ map_serializer = [items |-> <<>>]
    /\ sequence_serializer = [items |-> <<>>]
    /\ calls = <<>>

\* to_bytes(&value): the Serializer's term, written by Term::encode.
to_bytes ==
    /\ pc = "idle"
    /\ \E i \in 1..Len(Types) : \E v \in ValuesOf(Types[i]) :
          /\ value' = v
          /\ hint' = Types[i]
          /\ term' = Serialize(v)
    /\ pc' = "encoded"
    /\ UNCHANGED <<result, access, acc, map_deserializer, map_serializer, sequence_serializer, calls>>

\* from_bytes::<T>(&bytes) on the bytes to_bytes returned, T the value's type.
from_bytes ==
    /\ pc = "encoded"
    /\ term.ok
    /\ result' = Deserialize(term.val, hint)
    /\ pc' = "decoded"
    /\ UNCHANGED <<value, hint, term, access, acc, map_deserializer,
                   map_serializer, sequence_serializer, calls>>

\* T::deserialize(Deserializer::from_term(&t)) on a term from outside.
from_term ==
    /\ pc = "idle"
    /\ \E t \in Terms : \E i \in 1..Len(Types) :
          /\ term' = Ok(t)
          /\ hint' = Types[i]
          /\ result' = Deserialize(t, Types[i])
    /\ pc' = "parsed"
    /\ UNCHANGED <<value, access, acc, map_deserializer, map_serializer, sequence_serializer, calls>>

\* A decode of a term from outside whose target type calls deserialize_any,
\* for the term or for a part of it.
from_term_any ==
    /\ pc = "idle"
    /\ \E t \in Terms : \E h \in AnyHints :
          /\ term' = Ok(t)
          /\ hint' = h
          /\ result' = Deserialize(t, h)
    /\ pc' = "parsed"
    /\ UNCHANGED <<value, access, acc, map_deserializer, map_serializer, sequence_serializer, calls>>

\* deserialize_seq(visitor) with a hand-written visitor, up to visit_seq.
DeserializeSeq ==
    /\ pc = "idle"
    /\ \E t \in ListTerms \cup TupleTerms :
          LET a == deserialize_seq_access(t)
          IN  /\ term' = Ok(t)
              /\ IF a.ok
                 THEN access' = a.val /\ pc' = "visit_seq" /\ result' = result
                 ELSE access' = access /\ pc' = "parsed" /\ result' = a
    /\ hint' = [h |-> "visitor", method |-> "deserialize_seq"]
    /\ UNCHANGED <<value, acc, map_deserializer, map_serializer, sequence_serializer, calls>>

\* deserialize_tuple(len, visitor) with a hand-written visitor, up to visit_seq.
DeserializeTuple ==
    /\ pc = "idle"
    /\ \E t \in ListTerms \cup TupleTerms : \E len \in 0..(MaxLen + 1) :
          LET a == deserialize_tuple_access(t, len)
          IN  /\ term' = Ok(t)
              /\ hint' = [h |-> "visitor", method |-> "deserialize_tuple", len |-> len]
              /\ IF a.ok
                 THEN access' = a.val /\ pc' = "visit_seq" /\ result' = result
                 ELSE access' = access /\ pc' = "parsed" /\ result' = a
    /\ UNCHANGED <<value, acc, map_deserializer, map_serializer, sequence_serializer, calls>>

\* The visitor calls next_element_seed; an error ends visit_seq (`?`).
NextElement ==
    /\ pc = "visit_seq"
    /\ \E seed \in Seeds :
          LET r == ListDeserializer_next_element_seed(access, seed)
          IN  /\ access' = r.self
              /\ IF ~r.ret.ok
                 THEN result' = visit_seq_return(r.self, r.ret) /\ pc' = "visit_failed"
                      /\ acc' = acc
                 ELSE /\ result' = result
                      /\ pc' = pc
                      /\ acc' = IF r.ret.val.some THEN Append(acc, r.ret.val.v) ELSE acc
    /\ UNCHANGED <<value, hint, term, map_deserializer, map_serializer, sequence_serializer, calls>>

\* The visitor returns what it has pulled.
VisitSeqReturn ==
    /\ pc = "visit_seq"
    /\ result' = visit_seq_return(access, Ok(acc))
    /\ pc' = "visited"
    /\ UNCHANGED <<value, hint, term, access, acc, map_deserializer,
                   map_serializer, sequence_serializer, calls>>

\* deserialize_map(visitor), deserialize_struct(.., visitor) or
\* struct_variant(.., visitor) on the payload, with a hand-written visitor,
\* up to visit_map.
DeserializeMap ==
    /\ pc = "idle"
    /\ \E t \in CursorMaps \cup LeafTerms : \E m \in MapMethods :
          LET a == deserialize_map_access(t)
          IN  /\ term' = Ok(t)
              /\ hint' = [h |-> "visitor", method |-> m]
              /\ IF a.ok
                 THEN map_deserializer' = a.val /\ pc' = "visit_map" /\ result' = result
                 ELSE map_deserializer' = map_deserializer /\ pc' = "parsed"
                      /\ result' = a
    /\ UNCHANGED <<value, access, acc, map_serializer, sequence_serializer, calls>>

\* One call on the cursor or builder the call holds, as its caller sees it:
\* the operation, its argument and what it returned.
Call(op, arg, ret) == [op |-> op, arg |-> arg, ret |-> ret]

\* What the visitor's call of a Map Access operation leaves: a panic unwinds
\* out of the decode; on an error the visitor returns it (`?`) or goes on
\* without the item; a key or value (pulled) is kept.
MapStep(op, seed, r, pulled) ==
    /\ map_deserializer' = r.self
    /\ calls' = Append(calls, Call(op, seed, r.ret))
    /\ IF "panic" \in DOMAIN r.ret
       THEN result' = r.ret /\ pc' = "panicked" /\ acc' = acc
       ELSE IF ~r.ret.ok
       THEN /\ \/ result' = AndThenEnd(r) /\ pc' = "visit_failed"
               \/ result' = result /\ pc' = pc
            /\ acc' = acc
       ELSE result' = result /\ pc' = pc /\ acc' = acc \o pulled
    /\ UNCHANGED <<value, hint, term, access, map_serializer, sequence_serializer>>

\* The visitor calls next_key_seed.
NextKey ==
    /\ pc = "visit_map"
    /\ Len(calls) < MaxCalls
    /\ \E seed \in KeySeeds :
          LET r == MapDeserializer_next_key_seed(map_deserializer, seed)
          IN  MapStep("next_key_seed", seed, r,
                      IF r.ret.val.some THEN <<r.ret.val.v>> ELSE <<>>)

\* The visitor calls next_value_seed.
NextValue ==
    /\ pc = "visit_map"
    /\ Len(calls) < MaxCalls
    /\ \E seed \in ValueSeeds :
          LET r == MapDeserializer_next_value_seed(map_deserializer, seed)
          IN  MapStep("next_value_seed", seed, r, <<r.ret.val>>)

\* The visitor returns what it has pulled; the caller checks the cursor.
VisitMapReturn ==
    /\ pc = "visit_map"
    /\ result' = AndThenEnd([ret |-> Ok(acc), self |-> map_deserializer])
    /\ pc' = "visited_map"
    /\ UNCHANGED <<value, hint, term, access, acc, map_deserializer,
                   map_serializer, sequence_serializer, calls>>

\* A hand-written Serialize implementation calls serialize_seq,
\* serialize_tuple or serialize_tuple_struct and holds a SequenceSerializer.
SerializeSeq ==
    /\ pc = "idle"
    /\ \E m \in SeqMethods :
          hint' = [h |-> "serializer", method |-> m]
    /\ sequence_serializer' = [items |-> <<>>]
    /\ pc' = "serialize_seq"
    /\ UNCHANGED <<value, term, result, access, acc, map_deserializer, map_serializer,
                   calls>>

\* It calls serialize_tuple_variant and holds a NamedSequenceSerializer.
SerializeTupleVariant ==
    /\ pc = "idle"
    /\ \E variant \in BuilderVariants :
          sequence_serializer' = [name |-> Atom(to_snake_case(variant)), items |-> <<>>]
    /\ hint' = [h |-> "serializer", method |-> "serialize_tuple_variant"]
    /\ pc' = "serialize_seq"
    /\ UNCHANGED <<value, term, result, access, acc, map_deserializer, map_serializer,
                   calls>>

\* It calls serialize_map and holds a MapSerializer.
SerializeMap ==
    /\ pc = "idle"
    /\ map_serializer' = [items |-> <<>>]
    /\ hint' = [h |-> "serializer", method |-> "serialize_map"]
    /\ pc' = "serialize_map"
    /\ UNCHANGED <<value, term, result, access, acc, map_deserializer,
                   sequence_serializer, calls>>

\* It calls serialize_struct and holds a MapSerializer, or
\* serialize_struct_variant and holds a NamedMapSerializer.
SerializeStruct ==
    /\ pc = "idle"
    /\ \/ /\ map_serializer' = [items |-> <<>>]
          /\ hint' = [h |-> "serializer", method |-> "serialize_struct"]
       \/ /\ \E variant \in BuilderVariants :
                map_serializer' = [name |-> Atom(to_snake_case(variant)), items |-> <<>>]
          /\ hint' = [h |-> "serializer", method |-> "serialize_struct_variant"]
    /\ pc' = "serialize_struct"
    /\ UNCHANGED <<value, term, result, access, acc, map_deserializer,
                   sequence_serializer, calls>>

\* What a call on the builder leaves besides the builder's items: a panic
\* unwinds out of the encode; on an error the Serialize implementation
\* returns it (`?`) or goes on without the item.
BuilderStep(op, arg, r) ==
    /\ calls' = Append(calls, Call(op, arg, r.ret))
    /\ IF "panic" \in DOMAIN r.ret
       THEN term' = r.ret /\ pc' = "panicked"
       ELSE IF ~r.ret.ok
       THEN \/ term' = r.ret /\ pc' = "build_failed"
            \/ term' = term /\ pc' = pc
       ELSE term' = term /\ pc' = pc
    /\ UNCHANGED <<value, hint, result, access, acc, map_deserializer>>

\* It calls serialize_element, or serialize_field of a tuple struct or tuple
\* variant.
SerializeElement ==
    /\ pc = "serialize_seq"
    /\ Len(calls) < MaxLen + 1
    /\ \E val \in EntryValues :
          LET r == SequenceSerializer_serialize_element(sequence_serializer.items, val)
          IN  /\ sequence_serializer' = [sequence_serializer EXCEPT !.items = r.items]
              /\ BuilderStep(IF hint.method \in {"serialize_seq", "serialize_tuple"}
                             THEN "serialize_element" ELSE "serialize_field", val, r)
    /\ UNCHANGED map_serializer

\* It calls serialize_entry(key, value).
SerializeEntry ==
    /\ pc = "serialize_map"
    /\ Len(calls) < MaxLen + 1
    /\ \E key \in EntryKeys : \E val \in EntryValues :
          LET r == MapSerializer_serialize_entry(map_serializer.items, key, val)
          IN  /\ map_serializer' = [map_serializer EXCEPT !.items = r.items]
              /\ BuilderStep("serialize_entry", <<key, val>>, r)
    /\ UNCHANGED sequence_serializer

\* It calls serialize_key(key).
SerializeKey ==
    /\ pc = "serialize_map"
    /\ \E key \in EntryKeys :
          LET r == MapSerializer_serialize_key(map_serializer.items, key)
          IN  /\ map_serializer' = [map_serializer EXCEPT !.items = r.items]
              /\ BuilderStep("serialize_key", key, r)
    /\ UNCHANGED sequence_serializer

\* It calls serialize_value(value).
SerializeValue ==
    /\ pc = "serialize_map"
    /\ \E val \in EntryValues :
          LET r == MapSerializer_serialize_value(map_serializer.items, val)
          IN  /\ map_serializer' = [map_serializer EXCEPT !.items = r.items]
              /\ BuilderStep("serialize_value", val, r)
    /\ UNCHANGED sequence_serializer

\* It calls serialize_field(key, value) of a struct or struct variant.
SerializeField ==
    /\ pc = "serialize_struct"
    /\ Len(calls) < MaxLen + 1
    /\ \E key \in {X, Y} : \E val \in EntryValues :
          LET r == MapSerializer_serialize_field(map_serializer.items, key, val)
          IN  /\ map_serializer' = [map_serializer EXCEPT !.items = r.items]
              /\ BuilderStep("serialize_field", <<key, val>>, r)
    /\ UNCHANGED sequence_serializer

\* It calls end on the SequenceSerializer or NamedSequenceSerializer.
SerializeSeqEnd ==
    /\ pc = "serialize_seq"
    /\ term' = CASE hint.method = "serialize_seq" -> SerializeSeq_end(sequence_serializer)
                 [] hint.method = "serialize_tuple" -> SerializeTuple_end(sequence_serializer)
                 [] hint.method = "serialize_tuple_struct" ->
                        SerializeTupleStruct_end(sequence_serializer)
                 [] hint.method = "serialize_tuple_variant" ->
                        SerializeTupleVariant_end(sequence_serializer)
    /\ pc' = "built"
    /\ UNCHANGED <<value, hint, result, access, acc, map_deserializer, map_serializer,
                   sequence_serializer, calls>>

\* It calls end on the MapSerializer or NamedMapSerializer.
SerializeMapEnd ==
    /\ pc \in {"serialize_map", "serialize_struct"}
    /\ term' = CASE hint.method = "serialize_map" -> MapSerializer_end(map_serializer.items)
                 [] hint.method = "serialize_struct" -> SerializeStruct_end(map_serializer)
                 [] hint.method = "serialize_struct_variant" ->
                        SerializeStructVariant_end(map_serializer)
    /\ pc' = "built"
    /\ UNCHANGED <<value, hint, result, access, acc, map_deserializer, map_serializer,
                   sequence_serializer, calls>>

Next ==
    \/ to_bytes
    \/ from_bytes
    \/ from_term
    \/ from_term_any
    \/ DeserializeSeq
    \/ DeserializeTuple
    \/ NextElement
    \/ VisitSeqReturn
    \/ DeserializeMap
    \/ NextKey
    \/ NextValue
    \/ VisitMapReturn
    \/ SerializeSeq
    \/ SerializeTupleVariant
    \/ SerializeMap
    \/ SerializeStruct
    \/ SerializeElement
    \/ SerializeEntry
    \/ SerializeKey
    \/ SerializeValue
    \/ SerializeField
    \/ SerializeSeqEnd
    \/ SerializeMapEnd

Spec == Init /\ [][Next]_vars

(***************************************************************************)
(* Properties.                                                             *)
(***************************************************************************)
\* to_bytes then from_bytes gives the value back.
RoundTrips(v, t) ==
    LET enc == Serialize(v)
    IN  enc.ok /\ Deserialize(enc.val, t) = Ok(v)

Composite == {"struct", "tuple_struct", "tuple", "seq", "map"}

\* Every leaf (a value that is no record, tuple struct, tuple, sequence or
\* map) of v, of type t, round-trips on its own.
RECURSIVE LeavesRoundTrip(_, _)
LeavesRoundTrip(v, t) ==
    CASE v.k = "seq" ->
           \A i \in 1..Len(v.items) : LeavesRoundTrip(v.items[i], t.elem)
      [] v.k \in {"tuple", "tuple_struct"} ->
           \A i \in 1..Len(v.items) : LeavesRoundTrip(v.items[i], t.elems[i])
      [] v.k = "struct" ->
           \A i \in 1..Len(v.fields) : LeavesRoundTrip(v.fields[i][2], t.fields[i][2])
      [] v.k = "map" ->
           \A i \in 1..Len(v.entries) :
              /\ LeavesRoundTrip(v.entries[i][1], t.key)
              /\ LeavesRoundTrip(v.entries[i][2], t.val)
      [] OTHER -> RoundTrips(v, t)

\* C1: a record, tuple struct, tuple, sequence or map whose leaves round-trip
\* on their own comes back from from_bytes(to_bytes(v)) equal to v: same
\* elements, same order, same field names with the same values.
C1_CompositeRoundTrip ==
    (pc = "decoded" /\ value.k \in Composite /\ LeavesRoundTrip(value, hint))
        => result = Ok(value)

\* A record of a sequence of two and a present optional has come back.
C1_Witness ==
    /\ pc = "decoded"
    /\ result = Ok(value)
    /\ value.k = "struct"
    /\ value.fields[1][2].k = "seq"
    /\ Len(value.fields[1][2].items) = 2
    /\ value.fields[2][2].k = "some"

\* C2 (as claimed): every integer of every width comes back from the decode
\* of its own encoding against its own width.
C2_IntegerRoundTrip ==
    (pc = "decoded" /\ value.k = "int") => result = Ok(value)

FixWidths == {"i8", "i16", "i32", "u8", "u16"}

\* C3: the node kind of an encoded integer is decided by the declared width
\* alone: FixInteger for i8, i16, i32, u8, u16, BigInteger for i64, u32,
\* u64, with the value unchanged.
C3_KindByWidth ==
    (pc \in {"encoded", "decoded"} /\ value.k = "int")
        => term = Ok(IF value.w \in FixWidths THEN FixInteger(value.v)
                     ELSE BigInteger(value.v))

\* A u32 that fits the FixInteger range was encoded as a BigInteger.
C3_Witness ==
    /\ pc = "encoded"
    /\ value.k = "int"
    /\ value.w = "u32"
    /\ value.v \in RangeOf("i32")
    /\ value.v > 0
    /\ term = Ok(BigInteger(value.v))

\* The terms of the items of a list or the values of a field list.
TermsOf(values) == [i \in 1..Len(values) |-> Serialize(values[i]).val]
FieldTermsOf(fields) ==
    [i \in 1..Len(fields) |-> <<Atom(fields[i][1]), Serialize(fields[i][2]).val>>]

\* C4: a unit variant encodes as the atom of its snake-cased name; every
\* other variant as a Tuple of two elements, that atom first, then the
\* payload's term (newtype), a Tuple of the fields' terms in order (tuple
\* variant) or a Map from the field names' atoms to the fields' terms (record
\* variant).  The single-entry Map form is never emitted.
C4_VariantEncoding ==
    (pc = "encoded" /\ value.k \in {"unit_variant", "newtype_variant",
                                    "tuple_variant", "struct_variant"})
        => LET tag == Atom(to_snake_case(value.name))
           IN  /\ term.ok
               /\ term.val.kind # "Map"
               /\ CASE value.k = "unit_variant" -> term.val = tag
                    [] value.k = "newtype_variant" ->
                         term.val = Tuple(<<tag, Serialize(value.v).val>>)
                    [] value.k = "tuple_variant" ->
                         term.val = Tuple(<<tag, Tuple(TermsOf(value.items))>>)
                    [] value.k = "struct_variant" ->
                         term.val = Tuple(<<tag, Map(FieldTermsOf(value.fields))>>)

\* A record variant was encoded as {rec, #{x => n}}.
C4_Witness ==
    /\ pc = "encoded"
    /\ value.k = "struct_variant"
    /\ term.ok
    /\ term.val.kind = "Tuple"
    /\ term.val.elements[1] = Atom(Rec_)
    /\ term.val.elements[2].kind = "Map"
    /\ Len(term.val.elements[2].entries) = 1

\* A Result's value wrapped as the payload of the newtype variant name.
AsNewtypeVariant(r, name) ==
    IF ~r.ok THEN r ELSE Ok([k |-> "newtype_variant", name |-> name, v |-> r.val])
AsTupleVariant(r, name) ==
    IF ~r.ok THEN r ELSE Ok([k |-> "tuple_variant", name |-> name, items |-> r.val.items])
AsStructVariant(r, name) ==
    IF ~r.ok THEN r ELSE Ok([k |-> "struct_variant", name |-> name, fields |-> r.val.fields])

\* The decode of (tag, payload) as a non-unit variant of E: the payload
\* decoded as a value of its own against the variant's declared shape.
ByShape(tag, payload) ==
    CASE tag = Atom(Ok_) -> AsNewtypeVariant(Deserialize(payload, U8), OkName)
      [] tag = Atom(Pair_) ->
           AsTupleVariant(Deserialize(payload, TupleOf(<<U8, BOOL>>)), PairName)
      [] tag = Atom(Rec_) ->
           AsStructVariant(Deserialize(payload, StructOf(<< <<X, U8>> >>)), RecName)

NonUnitTags == {Atom(Ok_), Atom(Pair_), Atom(Rec_)}

IsPair(t) == t.kind = "Tuple" /\ Len(t.elements) = 2
IsSingleEntryMap(t) == t.kind = "Map" /\ Len(t.entries) = 1

C6_EnumDispatch ==
    (pc = "parsed" /\ hint.h = "enum")
        => /\ (term.val.kind = "Tuple" /\ Len(term.val.elements) # 2)
                => result = Err("MisSizedVariantTuple")
           /\ (term.val.kind \notin {"Atom", "Tuple"} /\ ~IsSingleEntryMap(term.val))
                => result = Err("ExpectedAtomOrTuple")
           /\ IsPair(term.val)
                => /\ term.val.elements[1].kind # "Atom" => result = Err("ExpectedAtom")
                   /\ term.val.elements[1] = Atom(Ok_)
                        => result = AsNewtypeVariant(
                                        Deserialize(term.val.elements[2], U8), OkName)

\* A Tuple of three elements was refused for its size.
C6_Witness ==
    /\ pc = "parsed"
    /\ hint.h = "enum"
    /\ term.val.kind = "Tuple"
    /\ Len(term.val.elements) = 3
    /\ result = Err("MisSizedVariantTuple")

\* C7: against an optional hint the result is None exactly for Atom("nil");
\* any other node gives Some of its decode against the inner hint, or that
\* decode's error.
C7_OptionDecode ==
    (pc = "parsed" /\ hint.h = "option")
        => LET inner == Deserialize(term.val, hint.inner)
           IN  /\ (result = Ok([k |-> "none"])) <=> (term.val = Atom(NIL))
               /\ term.val # Atom(NIL)
                    => result = IF inner.ok THEN Ok([k |-> "some", v |-> inner.val])
                                ELSE inner

\* An atom other than nil gave Some of its decode.
C7_Witness ==
    /\ pc = "parsed"
    /\ hint.h = "option"
    /\ term.val = Atom(TRUE_NAME)
    /\ result = Ok([k |-> "some", v |-> [k |-> "bool", v |-> TRUE]])

\* C8 (as claimed): every optional other than Some(unit) whose payload
\* round-trips on its own comes back from from_bytes(to_bytes(o)).
C8_OptionRoundTrip ==
    (pc = "decoded" /\ hint.h = "option"
       /\ value # [k |-> "some", v |-> [k |-> "unit"]]
       /\ (value.k = "some" => RoundTrips(value.v, hint.inner)))
        => result = Ok(value)

\* C8 (amended): None comes back as None; Some(x) comes back as None when
\* the term of x is Atom("nil") (Some(unit), Some(None), Some of a unit
\* variant named Nil) and as Some(x) otherwise, provided x round-trips on
\* its own.
C8_OptionRoundTripUpToNil ==
    (pc = "decoded" /\ hint.h = "option")
        => CASE value.k = "none" -> result = Ok(value)
             [] value.k = "some" /\ term.val = Atom(NIL) -> result = Ok([k |-> "none"])
             [] OTHER -> RoundTrips(value.v, hint.inner) => result = Ok(value)

\* Some of a unit variant, whose term is an atom other than nil, came back.
C8_Witness ==
    /\ pc = "decoded"
    /\ hint.h = "option"
    /\ value.k = "some"
    /\ value.v.k = "unit_variant"
    /\ term.val.kind = "Atom"
    /\ result = Ok(value)

\* What a fixed-length decode of node against length len must answer before
\* it looks at any element.
Refusal(node, len) ==
    IF node.kind # "Tuple" THEN Err("ExpectedTuple")
    ELSE IF Len(node.elements) # len THEN Err("WrongTupleLength")
    ELSE Ok("unit")

\* C9: a Tuple of k elements against a tuple, tuple struct or tuple variant
\* of n # k elements fails with WrongTupleLength, any other node (a List of n
\* elements too) with ExpectedTuple, and no element is pulled: the visitor
\* gets a cursor only on a Tuple of n elements.
C9_TupleLength ==
    /\ (pc = "parsed" /\ hint.h \in {"tuple", "tuple_struct"}
          /\ ~Refusal(term.val, hint.len).ok)
         => result = Refusal(term.val, hint.len)
    /\ (pc = "parsed" /\ hint.h = "enum" /\ IsPair(term.val)
          /\ term.val.elements[1] = Atom(Pair_)
          /\ ~Refusal(term.val.elements[2], 2).ok)
         => result = Refusal(term.val.elements[2], 2)
    /\ (hint.h = "visitor" /\ hint.method = "deserialize_tuple")
         => IF Refusal(term.val, hint.len).ok
            THEN pc \in {"visit_seq", "visited", "visit_failed"}
            ELSE /\ pc = "parsed"
                 /\ result = Refusal(term.val, hint.len)
                 /\ acc = <<>>
                 /\ access = ListDeserializer_new(<<>>)

\* A Tuple of one element that is no integer was refused for its length by
\* a hint of two elements, the first an integer.
C9_Witness ==
    /\ pc = "parsed"
    /\ hint = TupleOf(<<U8, BOOL>>)
    /\ term.val = Tuple(<<Atom(NIL)>>)
    /\ result = Err("WrongTupleLength")

\* C10 (as claimed): a visitor that returns while the Sequence Access cursor
\* still holds elements makes the decode fail with TooManyItems.
C10_LeftoverElementsFail ==
    (pc = "visited" /\ access.iter # <<>>) => result = Err("TooManyItems")

\* C11: when the visitor of a map decode (deserialize_map, deserialize_struct
\* or a record variant's payload) returns a value while the cursor still
\* holds an entry that was never pulled, the decode fails with TooManyItems;
\* when every entry was pulled, the visitor's value is returned unchanged.
C11_LeftoverEntriesFail ==
    pc = "visited_map"
        => result = IF map_deserializer.items # <<>> THEN Err("TooManyItems")
                    ELSE Ok(acc)

\* A visitor that pulled the first of two entries and returned was refused.
C11_Witness ==
    /\ pc = "visited_map"
    /\ hint.method = "struct_variant"
    /\ Len(term.val.entries) = 2
    /\ Len(map_deserializer.items) = 1
    /\ Len(acc) = 2
    /\ result = Err("TooManyItems")

\* C12 (as claimed): a FixInteger or BigInteger against an integer hint
\* decodes to its value when the value lies in the hint's range and fails
\* with IntegerConvertError when it does not.
C12_RangeCheckedNarrowing ==
    (pc = "parsed" /\ hint.h = "int" /\ term.val.kind \in {"FixInteger", "BigInteger"})
        => result = IF term.val.value \in RangeOf(hint.w)
                    THEN Ok([k |-> "int", w |-> hint.w, v |-> term.val.value])
                    ELSE Err("IntegerConvertError")

\* C13: integer and float nodes are never coerced into each other: a
\* FixInteger or BigInteger against a float hint fails with ExpectedFloat, a
\* Float against an integer hint fails with ExpectedFixInteger, and so does
\* every other node that is no FixInteger and no BigInteger.
C13_NoCoercion ==
    /\ (pc = "parsed" /\ hint.h = "float"
          /\ term.val.kind \in {"FixInteger", "BigInteger"})
         => result = Err("ExpectedFloat")
    /\ (pc = "parsed" /\ hint.h = "int"
          /\ term.val.kind \notin {"FixInteger", "BigInteger"})
         => result = Err("ExpectedFixInteger")

\* A BigInteger whose value a float holds exactly was refused by an f32 hint.
C13_Witness ==
    /\ pc = "parsed"
    /\ hint = [h |-> "float", w |-> "f32"]
    /\ term.val = BigInteger(1)
    /\ result = Err("ExpectedFloat")

\* C14: against a string hint a Binary decodes to the string whose UTF-8 it
\* is and fails with Utf8DecodeError when it is the UTF-8 of none; against a
\* byte-blob hint every Binary decodes to its bytes unchanged; a node that is
\* no Binary fails with ExpectedBinary against both.
C14_BinaryDecode ==
    /\ (pc = "parsed" /\ hint.h \in {"string", "bytes"} /\ term.val.kind # "Binary")
         => result = Err("ExpectedBinary")
    /\ (pc = "parsed" /\ hint.h = "bytes" /\ term.val.kind = "Binary")
         => result = Ok([k |-> "bytes", v |-> term.val.bytes])
    /\ (pc = "parsed" /\ hint.h = "string" /\ term.val.kind = "Binary")
         => IF result.ok
            THEN result.val.k = "str" /\ as_bytes(result.val.v) = term.val.bytes
            ELSE /\ result = Err("Utf8DecodeError")
                 /\ term.val.bytes \notin {as_bytes(str) : str \in Strings}

\* The first byte of a two-byte character, alone, was refused as a string.
C14_Witness ==
    /\ pc = "parsed"
    /\ hint.h = "string"
    /\ term.val = Binary(<<195>>)
    /\ result = Err("Utf8DecodeError")

\* The same bytes were returned unchanged as a byte blob.
C14_BytesWitness ==
    /\ pc = "parsed"
    /\ hint.h = "bytes"
    /\ term.val = Binary(<<195>>)
    /\ result = Ok([k |-> "bytes", v |-> <<195>>])

\* A non-finite float is v or lies somewhere inside v.
RECURSIVE HasNonFinite(_)
HasNonFinite(v) ==
    CASE v.k = "float" -> v.v.cls # "finite"
      [] v.k \in {"some", "newtype_struct", "newtype_variant"} -> HasNonFinite(v.v)
      [] v.k \in {"seq", "tuple", "tuple_struct", "tuple_variant"} ->
           \E i \in 1..Len(v.items) : HasNonFinite(v.items[i])
      [] v.k \in {"struct", "struct_variant"} ->
           \E i \in 1..Len(v.fields) : HasNonFinite(v.fields[i][2])
      [] v.k = "map" ->
           \E i \in 1..Len(v.entries) :
              HasNonFinite(v.entries[i][1]) \/ HasNonFinite(v.entries[i][2])
      [] OTHER -> FALSE

\* C15 (as claimed): the encode of a value that holds a non-finite float, at
\* top level or nested, fails with FloatConvertError.
C15_NonFiniteIsFloatConvertError ==
    (pc = "encoded" /\ HasNonFinite(value)) => term = Err("FloatConvertError")

\* C16 (as claimed): the encode of a value that holds no non-finite float
\* returns a node, however the Serialize implementation drives the builders:
\* it returns no error and it does not panic.
C16_EncodeTotal ==
    /\ (pc = "encoded" /\ ~HasNonFinite(value)) => term.ok
    /\ hint.h = "serializer" => pc # "panicked"
    /\ (pc = "built" /\ \A i \in 1..Len(map_serializer.items) :
                           map_serializer.items[i][2].kind # "Float")
         => term.ok

\* C17 (as claimed): an Atom that names a newtype, tuple or record variant,
\* decoded against the enum, fails with ExpectedAtom.
C17_AtomPayloadExpectedAtom ==
    (pc = "parsed" /\ hint.h = "enum" /\ term.val \in NonUnitTags)
        => result = Err("ExpectedAtom")

\* C17 (amended): an Atom that names a newtype, tuple or record variant,
\* decoded against the enum, fails with serde's own invalid-type error, an
\* Error::Message; ExpectedAtom is the answer to the opposite mismatch, a
\* two-element Tuple whose tag names a unit variant.
C17_AtomPayloadMessage ==
    /\ (pc = "parsed" /\ hint.h = "enum" /\ term.val \in NonUnitTags)
         => result = Err("Message")
    /\ (pc = "parsed" /\ hint.h = "enum" /\ IsPair(term.val)
          /\ term.val.elements[1] = Atom(AnOption_))
         => result = Err("ExpectedAtom")

\* The atom ok, the name of a newtype variant, was refused with a Message.
C17_Witness ==
    /\ pc = "parsed"
    /\ hint = E
    /\ term.val = Atom(Ok_)
    /\ result = Err("Message")

\* C18 (as claimed): every character, one whose UTF-8 is longer than one
\* byte included, is encoded as the Binary of its UTF-8 and comes back from
\* the decode of that Binary against a char hint.
C18_CharRoundTrip ==
    (pc = "decoded" /\ value.k = "char")
        => /\ term = Ok(Binary(Utf8Char(value.v)))
           /\ result = Ok(value)

VariantKinds == {"unit_variant", "newtype_variant", "tuple_variant", "struct_variant"}

\* C19 (as claimed): the decode of an encoded variant selects the variant
\* that was encoded, camel_case(snake_case(n)) = n for every variant name n;
\* the atoms of a record's fields are the field names as declared.
C19_CaseConversionInvertible ==
    /\ (pc = "decoded" /\ value.k \in VariantKinds)
         => /\ to_camel_case(to_snake_case(value.name)) = value.name
            /\ result.ok
            /\ result.val.k = value.k
            /\ result.val.name = value.name
    /\ (pc = "encoded" /\ value.k = "struct")
         => \A i \in 1..Len(value.fields) :
               term.val.entries[i][1] = Atom(hint.fields[i][1])

\* The nodes of t that a decode against h hands to deserialize_any before
\* any other failure: t itself, the payload of a present optional or of a
\* newtype, the first element of a List, the second element of a Tuple of
\* two whose first is a u8, the first value of a Map whose first key is a u8
\* or the atom x.
Unhinted(t, h) ==
    CASE h = ANY -> TRUE
      [] h = OptionOf(ANY) -> t # Atom(NIL)
      [] h.h = "newtype_struct" -> TRUE
      [] h = SeqOf(ANY) -> t.kind = "List" /\ t.elements # <<>>
      [] h = TupleOf(<<U8, ANY>>) ->
           /\ t.kind = "Tuple"
           /\ Len(t.elements) = 2
           /\ t.elements[1] \in {FixInteger(0), FixInteger(1), BigInteger(1)}
      [] h = MapOf(U8, ANY) ->
           /\ t.kind = "Map"
           /\ t.entries # <<>>
           /\ t.entries[1][1] \in {FixInteger(0), FixInteger(1), BigInteger(1)}
      [] h.h = "struct" ->
           t.kind = "Map" /\ t.entries # <<>> /\ t.entries[1][1] = Atom(X)

\* C20: Deserializer::deserialize_any fails with TypeHintsRequired on every
\* node, at top level and for a nested node, and the decode that made the
\* request returns that error and no value.
C20_TypeHintsRequired ==
    (pc = "parsed" /\ hint \in AnyHints /\ Unhinted(term.val, hint))
        => result = Err("TypeHintsRequired")

\* The integer element of a List was asked for without a hint.
C20_Witness ==
    /\ pc = "parsed"
    /\ hint = SeqOf(ANY)
    /\ term.val = List(<<FixInteger(1)>>)
    /\ result = Err("TypeHintsRequired")

\* The decode holds a Map Access cursor, or held one when it ended.
OnMapCursor == hint.h = "visitor" /\ hint.method \in MapMethods

\* The call ended in a panic.
Aborted(c) == "panic" \in DOMAIN c.ret

\* The call is a next_key that took an entry from the map: it returned a key
\* or the error of decoding one.
Took(c) ==
    /\ c.op = "next_key_seed"
    /\ ~Aborted(c)
    /\ (c.ret.ok => c.ret.val.some)

\* Before call i a key was pulled whose value has not been pulled since.
KeyPending(cs, i) ==
    \E j \in 1..(i - 1) :
        /\ Took(cs[j])
        /\ \A k \in (j + 1)..(i - 1) : cs[k].op # "next_value_seed"

\* Call i is out of turn: a next_value with no key pulled since the previous
\* next_value or since creation, or a next_key while a pulled key's value
\* has not been pulled.
OutOfTurn(cs, i) == (cs[i].op = "next_key_seed") = KeyPending(cs, i)

\* The calls go next_key, next_value, next_key, ...
StrictlyAlternates(cs) ==
    \A i \in 1..Len(cs) :
        cs[i].op = IF i % 2 = 1 THEN "next_key_seed" ELSE "next_value_seed"

\* C21 (as claimed): on the Map Access cursor no call of a sequence that
\* strictly alternates next_key and next_value aborts, and every call out
\* of turn aborts with a panic, which unwinds out of the decode.
C21_AlternationNeverAborts ==
    OnMapCursor =>
        /\ StrictlyAlternates(calls) => \A i \in 1..Len(calls) : ~Aborted(calls[i])
        /\ \A i \in 1..Len(calls) :
              OutOfTurn(calls, i)
                  => Aborted(calls[i]) /\ pc = "panicked" /\ result = calls[i].ret

\* C21 (amended): a call on the Map Access cursor aborts with a panic, which
\* unwinds out of the decode, exactly when it is out of turn; so no call
\* aborts in a sequence that strictly alternates next_key and next_value
\* and in which every next_key took an entry.  A next_value that follows a
\* next_key signalling exhaustion is out of turn.
C21_OutOfTurnAborts ==
    OnMapCursor =>
        /\ \A i \in 1..Len(calls) :
              /\ Aborted(calls[i]) <=> OutOfTurn(calls, i)
              /\ Aborted(calls[i])
                    => i = Len(calls) /\ pc = "panicked" /\ result = calls[i].ret
        /\ (/\ StrictlyAlternates(calls)
            /\ \A i \in 1..Len(calls) :
                  calls[i].op = "next_key_seed" => Took(calls[i]))
              => \A i \in 1..Len(calls) : ~Aborted(calls[i])
        /\ pc = "panicked" => calls # <<>> /\ Aborted(calls[Len(calls)])

\* After a key, its value and a second key, a next_key panicked; the three
\* calls in turn before it did not.
C21_Witness ==
    /\ OnMapCursor
    /\ pc = "panicked"
    /\ Len(calls) = 4
    /\ StrictlyAlternates(SubSeq(calls, 1, 3))
    /\ calls[4].op = "next_key_seed"
    /\ result = Panic("MapDeserializer.next_key_seed was called twice in a row")


\* The encode holds a builder, or held one when it ended.
OnBuilder == hint.h = "serializer"
OnSequenceBuilder == hint.method \in SeqMethods \cup {"serialize_tuple_variant"}

\* The additions that returned Ok(()), in the order made.
Added(cs) == SelectSeq(cs, LAMBDA c : ~Aborted(c) /\ c.ret.ok)

\* The encoding of the item an addition handed over: an element, a key and
\* its value, or a field name and its value.
ChildOf(c) ==
    IF c.op = "serialize_entry"
    THEN <<Serialize(c.arg[1]).val, Serialize(c.arg[2]).val>>
    ELSE IF c.op = "serialize_field" /\ ~OnSequenceBuilder
    THEN <<Atom(c.arg[1]), Serialize(c.arg[2]).val>>
    ELSE Serialize(c.arg).val

Children(cs) == [i \in 1..Len(Added(cs)) |-> ChildOf(Added(cs)[i])]

\* The items the builder in hand holds.
BuilderItems ==
    IF OnSequenceBuilder THEN sequence_serializer.items ELSE map_serializer.items

\* The one node of the builder's kind over the children.
NodeOver(children) ==
    CASE hint.method = "serialize_seq" -> List(children)
      [] hint.method \in {"serialize_tuple", "serialize_tuple_struct"} -> Tuple(children)
      [] hint.method = "serialize_tuple_variant" ->
             Tuple(<<sequence_serializer.name, Tuple(children)>>)
      [] hint.method \in {"serialize_map", "serialize_struct"} -> Map(children)
      [] hint.method = "serialize_struct_variant" ->
             Tuple(<<map_serializer.name, Map(children)>>)

\* C22: a Sequence, Map, Struct or Variant builder holds the encodings of
\* the items whose additions succeeded, in the order added, as many as were
\* added and with duplicate map keys kept; an addition whose child encoding
\* fails adds nothing; finalizing yields the one node of the builder's kind
\* over exactly these children.
C22_BuildersKeepOrder ==
    OnBuilder =>
        /\ BuilderItems = Children(calls)
        /\ Len(BuilderItems) = Len(Added(calls))
        /\ pc = "built" => term = Ok(NodeOver(Children(calls)))

\* A map builder was finalized after two successful entries under the same
\* key and a failed one between them: the Map holds both entries, in order.
C22_Witness ==
    /\ OnBuilder
    /\ pc = "built"
    /\ hint.method = "serialize_map"
    /\ Len(calls) = 3
    /\ calls[1].ret.ok /\ ~calls[2].ret.ok /\ calls[3].ret.ok
    /\ calls[1].arg[1] = calls[3].arg[1]
    /\ calls[1].arg[2] # calls[3].arg[2]
    /\ Len(term.val.entries) = 2
    /\ term.val.entries[1][1] = term.val.entries[2][1]


\* The calls that returned, a value or an error.
Returned(cs) == SelectSeq(cs, LAMBDA c : ~Aborted(c))

\* The number of entries taken from the map before call i.
TakenBefore(cs, i) == Cardinality({j \in 1..(i - 1) : Took(cs[j])})

\* What a next_key answers that takes entry e and decodes its key with seed.
KeyOf(e, seed) ==
    LET k == Deserialize(e[1], seed)
    IN  IF k.ok THEN Ok(Some(k.val)) ELSE k

C24_PulledKeyCountsAsConsumed ==
    (OnMapCursor /\ pc = "visited_map") =>
        LET taken == TakenBefore(calls, Len(calls) + 1)
        IN  /\ result.ok <=> taken = Len(term.val.entries)
            /\ result = IF result.ok THEN Ok(acc) ELSE Err("TooManyItems")
            /\ (map_deserializer.current_value.some /\ taken = Len(term.val.entries))
                  => result = Ok(acc)

\* A visitor pulled both keys of a two-entry map and the first value only,
\* and its value was returned.
C24_Witness ==
    /\ OnMapCursor
    /\ pc = "visited_map"
    /\ hint.method = "deserialize_map"
    /\ Len(term.val.entries) = 2
    /\ Len(calls) = 3
    /\ Took(calls[3]) /\ calls[3].ret.ok
    /\ map_deserializer.current_value.some
    /\ Len(acc) = 3
    /\ result = Ok(acc)


====
